---- MODULE Spec2Model ----
(***************************************************************************)
(* The drinks menu backend of src/backend/src/api.py: five Flask routes    *)
(* over one table of drinks, four of them wrapped by requires_auth, and    *)
(* the four registered error handlers.  One request is one action: token   *)
(* check, handler body, commit, and the mapping of whatever was raised to  *)
(* the HTTP response.                                                      *)
(***************************************************************************)
EXTENDS Integers, Sequences, FiniteSets, TLC

\* ------------------------------------------------------------ bounds
\* Primary keys the store can hand out.
MaxId == 2

Ids == 1..MaxId

\* ------------------------------------------------------------ values
\* Python's None (a JSON null, or a key that is absent from the body).
None == "None"

Titles == {"Water", "Latte"}

Water == [name |-> "water", color |-> "blue", parts |-> 1]
Milk == [name |-> "milk", color |-> "white", parts |-> 2]

\* A JSON value in the "recipe" key: a list of ingredients, or null.
JList(items) == [tag |-> "list", items |-> items]
JNull == [tag |-> "null", items |-> <<>>]

Recipes == {JList(<<Milk, Water>>)}

\* ------------------------------------------------------------ tokens
Permissions == {"get:drinks-detail", "post:drinks", "patch:drinks", "delete:drinks"}

\* The permission sets the valid tokens of the model carry.
TokenPermissions == { {}, {"get:drinks-detail"}, Permissions }

\* What the Authorization header of a request holds.
Tokens ==
    { [kind |-> k, permissions |-> {}] : k \in {"missing", "malformed", "expired", "badsig"} }
        \cup { [kind |-> "valid", permissions |-> p] : p \in TokenPermissions }

\* ------------------------------------------------------------ bodies
\* A request body: a JSON object with optional title and recipe, a body that
\* is not parseable JSON, or no JSON body at all.
ObjectBodies ==
    { [kind |-> "object", title |-> t, recipe |-> r] :
        t \in Titles \cup {None}, r \in Recipes \cup {JNull} }

NoBody == [kind |-> "nojson", title |-> None, recipe |-> JNull]
MalformedBody == [kind |-> "malformed", title |-> None, recipe |-> JNull]

Bodies == ObjectBodies \cup {NoBody, MalformedBody}

\* ------------------------------------------------------------ exceptions
NoExc == [kind |-> "none", code |-> 0, error |-> "none"]
\* werkzeug's HTTPException, as raised by abort(code) or by request.get_json().
HTTPExc(code) == [kind |-> "HTTPException", code |-> code, error |-> "none"]
\* Any other Python exception (AttributeError, a SQLAlchemy error).
OtherExc == [kind |-> "Exception", code |-> 0, error |-> "none"]
\* auth.AuthError(error, status_code).
AuthErrorExc(error, status_code) ==
    [kind |-> "AuthError", code |-> status_code, error |-> error]

\* request.get_json(): the parsed body, None when the request carries no JSON
\* (or, in newer Flask, 415 for such a request), and 400 when the JSON does
\* not parse.
get_json(body) ==
    CASE body.kind = "object" -> {[exc |-> NoExc, value |-> body]}
      [] body.kind = "malformed" -> {[exc |-> HTTPExc(400), value |-> body]}
      [] OTHER -> {[exc |-> NoExc, value |-> body], [exc |-> HTTPExc(415), value |-> body]}

\* ------------------------------------------------------------ serialisation
\* json.dumps of the "recipe" value: the text stored in the recipe column.
json_dumps(v) ==
    IF v.tag = "null"
    THEN [json |-> "null", text |-> <<>>]
    ELSE [json |-> "array",
          text |-> [i \in DOMAIN v.items |->
                      <<v.items[i].name, v.items[i].color, v.items[i].parts>>]]

\* json.loads of a stored recipe column.
json_loads(s) ==
    IF s.json = "null"
    THEN JNull
    ELSE JList([i \in DOMAIN s.text |->
                  [name |-> s.text[i][1], color |-> s.text[i][2], parts |-> s.text[i][3]]])

\* ------------------------------------------------------------ Drink
\* Drink.long(): id, title and the full recipe.
long(id, row) == [id |-> id, title |-> row.title, recipe |-> json_loads(row.recipe)]

\* Drink.short(): id, title and the recipe without the ingredient names.
short(id, row) ==
    LET r == json_loads(row.recipe)
    IN [id |-> id, title |-> row.title,
        recipe |-> [tag |-> r.tag,
                    items |-> [i \in DOMAIN r.items |->
                                 [color |-> r.items[i].color, parts |-> r.items[i].parts]]]]

EmptyTable == [i \in {} |-> [title |-> None, recipe |-> json_dumps(JNull)]]

\* Drink.insert(): add the row under a fresh primary key and commit.
insert(tbl, id, row) == [i \in DOMAIN tbl \cup {id} |-> IF i = id THEN row ELSE tbl[i]]

\* Drink.update(): commit the changed row.
update(tbl, id, row) == [i \in DOMAIN tbl |-> IF i = id THEN row ELSE tbl[i]]

\* Drink.delete(): remove the row and commit.
delete(tbl, id) == [i \in DOMAIN tbl \ {id} |-> tbl[i]]

\* The least element of a non-empty set of ids.
MinId(S) == CHOOSE m \in S : \A x \in S : m <= x

RECURSIVE Ascending(_)
Ascending(S) == IF S = {} THEN <<>> ELSE <<MinId(S)>> \o Ascending(S \ {MinId(S)})

\* Drink.query.order_by(Drink.id).all(): the ids of the rows, ascending.
order_by_id(tbl) == Ascending(DOMAIN tbl)

\* ------------------------------------------------------------ auth
\* requires_auth(permission): get_token_auth_header, verify_decode_jwt and
\* check_permissions in turn.  NoExc when the token passes, else the AuthError
\* the decorator raises.
requires_auth(permission, token) ==
    CASE token.kind = "missing" -> AuthErrorExc("authorization_header_missing", 401)
      [] token.kind = "malformed" -> AuthErrorExc("invalid_header", 401)
      [] token.kind = "expired" -> AuthErrorExc("token_expired", 401)
      [] token.kind = "badsig" -> AuthErrorExc("invalid_signature", 401)
      [] permission \notin token.permissions -> AuthErrorExc("insufficient_scope", 403)
      [] OTHER -> NoExc

\* ------------------------------------------------------------ responses
NoDrinks == <<>>

\* jsonify({"success": True, "drinks": drinks})
DrinksBody(drinks) ==
    [kind |-> "drinks", success |-> TRUE, drinks |-> drinks, delete |-> 0,
     error |-> 0, message |-> ""]

\* jsonify({"success": True, "delete": id})
DeleteBody(id) ==
    [kind |-> "delete", success |-> TRUE, drinks |-> NoDrinks, delete |-> id,
     error |-> 0, message |-> ""]

\* jsonify({"success": False, "error": code, "message": message})
ErrorBody(code, message) ==
    [kind |-> "error", success |-> FALSE, drinks |-> NoDrinks, delete |-> 0,
     error |-> code, message |-> message]

\* The framework's own error page (HTML), produced when no handler is registered.
DefaultPage ==
    [kind |-> "page", success |-> FALSE, drinks |-> NoDrinks, delete |-> 0,
     error |-> 0, message |-> ""]

NoResponse == [status |-> 0, body |-> DefaultPage]

unprocessable == [status |-> 422, body |-> ErrorBody(422, "unprocessable")]
not_found == [status |-> 404, body |-> ErrorBody(404, "resource not found")]
unauthorized == [status |-> 401, body |-> ErrorBody(401, "unauthorized")]
forbidden == [status |-> 403, body |-> ErrorBody(403, "forbidden")]

\* The handlers registered with @app.errorhandler, by status code.
errorhandler(code) ==
    CASE code = 422 -> unprocessable
      [] code = 404 -> not_found
      [] code = 401 -> unauthorized
      [] code = 403 -> forbidden
      [] OTHER -> [status |-> code, body |-> DefaultPage]

\* What the application answers when `exc` escapes a view function: an
\* HTTPException goes to the handler registered for its code; no handler is
\* registered for AuthError or Exception, so those end as the framework's
\* 500 page.
handle_exception(exc) ==
    IF exc.kind = "HTTPException"
    THEN errorhandler(exc.code)
    ELSE [status |-> 500, body |-> DefaultPage]

\* ------------------------------------------------------------ views
\* The result of calling a view: the table afterwards, the value returned,
\* the exception caught by the view's own except clause, the exception that
\* left the view, and whether the view's body was entered.
Returned(tbl, ret) ==
    [table |-> tbl, ret |-> ret, caught |-> NoExc, raised |-> NoExc, ran |-> TRUE]

\* abort(code) in an except clause that caught `caught`.
Aborted(tbl, caught, code) ==
    [table |-> tbl, ret |-> DefaultPage, caught |-> caught, raised |-> HTTPExc(code),
     ran |-> TRUE]

\* The decorator raised before the view's body was entered.
Rejected(tbl, exc) ==
    [table |-> tbl, ret |-> DefaultPage, caught |-> NoExc, raised |-> exc, ran |-> FALSE]

\* Variant of get_drinks that lists drink.long() instead of drink.short().
get_drinks_Long(tbl) ==
    LET results == order_by_id(tbl)
    IN Returned(tbl, DrinksBody([i \in DOMAIN results |-> long(results[i], tbl[results[i]])]))

\* GET /drinks
get_drinks(tbl) ==
    LET results == order_by_id(tbl)
    IN Returned(tbl, DrinksBody([i \in DOMAIN results |-> short(results[i], tbl[results[i]])]))

\* GET /drinks-detail
get_drinks_detail(token, tbl) ==
    LET auth == requires_auth("get:drinks-detail", token)
        results == order_by_id(tbl)
    IN IF auth # NoExc
       THEN Rejected(tbl, auth)
       ELSE Returned(tbl,
                DrinksBody([i \in DOMAIN results |-> long(results[i], tbl[results[i]])]))

\* The store refuses a row without a title, and can fail on its own.
commit_ok(row, fault) == ~fault /\ row.title # None

\* Variant of create_drink without the @requires_auth decorator.
create_drink_NoAuth(token, tbl, j, id, fault) ==
    LET body == j.value
        drink == [title |-> body.title, recipe |-> json_dumps(body.recipe)]
    IN CASE j.exc # NoExc -> Aborted(tbl, j.exc, 422)
         [] body.kind # "object" -> Aborted(tbl, OtherExc, 422)
         [] ~commit_ok(drink, fault) -> Aborted(tbl, OtherExc, 422)
         [] OTHER -> Returned(insert(tbl, id, drink), DrinksBody(<<long(id, drink)>>))

\* Variant of create_drink that reads the recipe from a key the body lacks.
create_drink_NoRecipe(token, tbl, j, id, fault) ==
    LET auth == requires_auth("post:drinks", token)
        body == j.value
        drink == [title |-> body.title, recipe |-> json_dumps(JNull)]
    IN CASE auth # NoExc -> Rejected(tbl, auth)
         [] j.exc # NoExc -> Aborted(tbl, j.exc, 422)
         [] body.kind # "object" -> Aborted(tbl, OtherExc, 422)
         [] ~commit_ok(drink, fault) -> Aborted(tbl, OtherExc, 422)
         [] OTHER -> Returned(insert(tbl, id, drink), DrinksBody(<<long(id, drink)>>))

\* POST /drinks.  j is what request.get_json() gave, id the primary key the
\* store generates, fault whether the store fails.
create_drink(token, tbl, j, id, fault) ==
    LET auth == requires_auth("post:drinks", token)
        body == j.value
        drink == [title |-> body.title, recipe |-> json_dumps(body.recipe)]
    IN CASE auth # NoExc -> Rejected(tbl, auth)
         [] j.exc # NoExc -> Aborted(tbl, j.exc, 422)
         [] body.kind # "object" -> Aborted(tbl, OtherExc, 422)
         [] ~commit_ok(drink, fault) -> Aborted(tbl, OtherExc, 422)
         [] OTHER -> Returned(insert(tbl, id, drink), DrinksBody(<<long(id, drink)>>))

\* Variant of update_drink whose failed commit leaves the assigned fields stored.
update_drink_Dirty(token, tbl, id, j, fault) ==
    LET auth == requires_auth("patch:drinks", token)
        body == j.value
        title == IF body.title # None THEN body.title ELSE tbl[id].title
        recipe == IF body.recipe # JNull THEN json_dumps(body.recipe) ELSE tbl[id].recipe
        drink == [title |-> title, recipe |-> recipe]
    IN CASE auth # NoExc -> Rejected(tbl, auth)
         [] j.exc # NoExc -> Aborted(tbl, j.exc, j.exc.code)
         [] id \notin DOMAIN tbl -> Aborted(tbl, HTTPExc(404), 404)
         [] body.kind # "object" -> Aborted(tbl, OtherExc, 422)
         [] ~commit_ok(drink, fault) -> Aborted(update(tbl, id, drink), OtherExc, 422)
         [] OTHER -> Returned(update(tbl, id, drink), DrinksBody(<<long(id, drink)>>))

\* Variant of update_drink whose except clause aborts with 422 whatever it caught.
update_drink_Always422(token, tbl, id, j, fault) ==
    LET auth == requires_auth("patch:drinks", token)
        body == j.value
        title == IF body.title # None THEN body.title ELSE tbl[id].title
        recipe == IF body.recipe # JNull THEN json_dumps(body.recipe) ELSE tbl[id].recipe
        drink == [title |-> title, recipe |-> recipe]
    IN CASE auth # NoExc -> Rejected(tbl, auth)
         [] j.exc # NoExc -> Aborted(tbl, j.exc, 422)
         [] id \notin DOMAIN tbl -> Aborted(tbl, HTTPExc(404), 422)
         [] body.kind # "object" -> Aborted(tbl, OtherExc, 422)
         [] ~commit_ok(drink, fault) -> Aborted(tbl, OtherExc, 422)
         [] OTHER -> Returned(update(tbl, id, drink), DrinksBody(<<long(id, drink)>>))

\* PATCH /drinks/<id>
update_drink(token, tbl, id, j, fault) ==
    LET auth == requires_auth("patch:drinks", token)
        body == j.value
        title == IF body.title # None THEN body.title ELSE tbl[id].title
        recipe == IF body.recipe # JNull THEN json_dumps(body.recipe) ELSE tbl[id].recipe
        drink == [title |-> title, recipe |-> recipe]
    IN CASE auth # NoExc -> Rejected(tbl, auth)
         [] j.exc # NoExc -> Aborted(tbl, j.exc, j.exc.code)
         [] id \notin DOMAIN tbl -> Aborted(tbl, HTTPExc(404), 404)
         [] body.kind # "object" -> Aborted(tbl, OtherExc, 422)
         [] ~commit_ok(drink, fault) -> Aborted(tbl, OtherExc, 422)
         [] OTHER -> Returned(update(tbl, id, drink), DrinksBody(<<long(id, drink)>>))

\* Variant of delete_drink that deletes through an unfiltered query.
delete_drink_All(token, tbl, id, fault) ==
    LET auth == requires_auth("delete:drinks", token)
    IN CASE auth # NoExc -> Rejected(tbl, auth)
         [] id \notin DOMAIN tbl -> Aborted(tbl, HTTPExc(404), 404)
         [] fault -> Aborted(tbl, OtherExc, 422)
         [] OTHER -> Returned(EmptyTable, DeleteBody(id))

\* DELETE /drinks/<id>
delete_drink(token, tbl, id, fault) ==
    LET auth == requires_auth("delete:drinks", token)
    IN CASE auth # NoExc -> Rejected(tbl, auth)
         [] id \notin DOMAIN tbl -> Aborted(tbl, HTTPExc(404), 404)
         [] fault -> Aborted(tbl, OtherExc, 422)
         [] OTHER -> Returned(delete(tbl, id), DeleteBody(id))

\* ------------------------------------------------------------ state
VARIABLES
    table,      \* the drinks table: id -> [title, recipe column]
    pre,        \* the table as the last request found it
    req,        \* the last request
    resp,       \* the response it got
    view,       \* what its view did (Returned, Aborted or Rejected)
    fault,      \* whether the store was failing (any commit raises) during it
    gone        \* ids deleted since the last create

vars == <<table, pre, req, resp, view, fault, gone>>

Request(endpoint, token, id, body) ==
    [endpoint |-> endpoint, token |-> token, id |-> id, body |-> body]

NoToken == [kind |-> "missing", permissions |-> {}]

\* The response to a request whose view ended as v.
Response(v) == IF v.raised = NoExc THEN [status |-> 200, body |-> v.ret] ELSE handle_exception(v.raised)

\* One request, start to finish.
Serve(r, v, f) ==
    /\ pre' = table
    /\ fault' = f
    /\ req' = r
    /\ view' = v
    /\ table' = v.table
    /\ resp' = Response(v)
    /\ gone' = CASE r.endpoint = "create_drink" /\ v.raised = NoExc -> {}
                 [] r.endpoint = "delete_drink" /\ v.raised = NoExc -> gone \cup {r.id}
                 [] OTHER -> gone

\* db_drop_and_create_all() at import: the schema is recreated, empty.  (A
\* demo row added at start-up would be one of the one-drink states a POST
\* reaches from here.)
Init ==
    /\ table = EmptyTable
    /\ pre = EmptyTable
    /\ req = Request("none", NoToken, 0, NoBody)
    /\ resp = NoResponse
    /\ view = Rejected(EmptyTable, NoExc)
    /\ fault = FALSE
    /\ gone = {}

GetDrinks ==
    \E token \in Tokens :
        Serve(Request("get_drinks", token, 0, NoBody), get_drinks(table), FALSE)

GetDrinksDetail ==
    \E token \in Tokens :
        Serve(Request("get_drinks_detail", token, 0, NoBody), get_drinks_detail(token, table), FALSE)

\* A request the decorator rejects reads neither its body nor the store, so
\* what get_json, the key generator and the store would have given it is
\* fixed instead of enumerated.
Read(permission, token, S) ==
    IF requires_auth(permission, token) = NoExc THEN S ELSE {CHOOSE x \in S : TRUE}

\* The store can fail only under a request that reaches it.
Faults(permission, token) ==
    IF requires_auth(permission, token) = NoExc THEN BOOLEAN ELSE {FALSE}

CreateDrink ==
    \E token \in Tokens, body \in Bodies :
        /\ Ids \ DOMAIN table # {}    \* the model's store holds MaxId rows at most
        /\ \E j \in Read("post:drinks", token, get_json(body)),
              id \in Read("post:drinks", token, Ids \ DOMAIN table),
              f \in Faults("post:drinks", token) :
               Serve(Request("create_drink", token, 0, body),
                     create_drink(token, table, j, id, f), f)

UpdateDrink ==
    \E token \in Tokens, body \in Bodies, id \in Ids :
        \E j \in Read("patch:drinks", token, get_json(body)),
           f \in Faults("patch:drinks", token) :
            Serve(Request("update_drink", token, id, body),
                  update_drink(token, table, id, j, f), f)

DeleteDrink ==
    \E token \in Tokens, id \in Ids :
        \E f \in Faults("delete:drinks", token) :
            Serve(Request("delete_drink", token, id, NoBody),
                  delete_drink(token, table, id, f), f)

Next == GetDrinks \/ GetDrinksDetail \/ CreateDrink \/ UpdateDrink \/ DeleteDrink

Spec == Init /\ [][Next]_vars

\* ------------------------------------------------------------ properties
\* The routes behind requires_auth and the permission each is documented to need.
Protected == {"get_drinks_detail", "create_drink", "update_drink", "delete_drink"}

Required(endpoint) ==
    CASE endpoint = "get_drinks_detail" -> "get:drinks-detail"
      [] endpoint = "create_drink" -> "post:drinks"
      [] endpoint = "update_drink" -> "patch:drinks"
      [] endpoint = "delete_drink" -> "delete:drinks"
      [] OTHER -> "none"

ValidToken(r) == r.token.kind = "valid"
Authorized(r) == ValidToken(r) /\ Required(r.endpoint) \in r.token.permissions
Succeeded == resp.status = 200

\* C1: a protected endpoint answers 401 without a valid token, 403 to a valid
\* token without the endpoint's permission, and runs its handler (and can
\* succeed) only for a valid token that has it.
C1_AuthStatus ==
    req.endpoint \in Protected =>
        /\ ~ValidToken(req) => resp.status = 401
        /\ ValidToken(req) /\ ~Authorized(req) => resp.status = 403
        /\ view.ran \/ Succeeded => Authorized(req)

\* C2: a request to a protected endpoint whose token is missing, malformed,
\* expired, wrongly signed or without the permission never enters the handler
\* body, and the stored drinks are what they were before it.
C2_AuthShortCircuit ==
    req.endpoint \in Protected /\ ~Authorized(req) =>
        /\ ~view.ran
        /\ ~Succeeded
        /\ table = pre

\* An expired token on a POST that would otherwise have created a drink.
C2_Witness ==
    /\ req.endpoint = "create_drink"
    /\ req.token.kind = "expired"
    /\ req.body.kind = "object" /\ req.body.title # None /\ req.body.recipe # JNull
    /\ ~view.ran

C4_CreateOne ==
    /\ req.endpoint = "create_drink" /\ Authorized(req) /\ ~fault
    /\ req.body.kind = "object" /\ req.body.title # None /\ req.body.recipe # JNull
    => /\ Succeeded
       /\ resp.body.kind = "drinks" /\ resp.body.success
       /\ Len(resp.body.drinks) = 1
       /\ LET new == resp.body.drinks[1]
          IN /\ new.id \notin DOMAIN pre
             /\ DOMAIN table = DOMAIN pre \cup {new.id}
             /\ \A i \in DOMAIN pre : table[i] = pre[i]
             /\ new.title = req.body.title
             /\ new.recipe = req.body.recipe
             /\ table[new.id].title = req.body.title
             /\ Len(table[new.id].recipe.text) = Len(req.body.recipe.items)
             /\ \A n \in DOMAIN req.body.recipe.items :
                    table[new.id].recipe.text[n] =
                        <<req.body.recipe.items[n].name, req.body.recipe.items[n].color,
                          req.body.recipe.items[n].parts>>

\* A second drink created next to an existing one.
C4_Witness ==
    /\ req.endpoint = "create_drink" /\ Authorized(req) /\ Succeeded
    /\ req.body.title # None /\ req.body.recipe # JNull
    /\ Cardinality(DOMAIN pre) = 1
    /\ Cardinality(DOMAIN table) = 2

\* C5: an authorized PATCH /drinks/{id} changes only the fields its body
\* carries and answers with the updated drink in long projection; for an id
\* not in the store it answers 404 whatever the body holds, and changes
\* nothing.
C5_PartialUpdate ==
    req.endpoint = "update_drink" /\ Authorized(req) =>
        /\ req.id \notin DOMAIN pre => resp.status = 404 /\ table = pre
        /\ req.id \in DOMAIN pre /\ req.body.kind = "object" /\ ~fault =>
            /\ Succeeded
            /\ resp.body.drinks = <<long(req.id, table[req.id])>>
            /\ table[req.id].title =
                  IF req.body.title = None THEN pre[req.id].title ELSE req.body.title
            /\ table[req.id].recipe =
                  IF req.body.recipe = JNull THEN pre[req.id].recipe
                  ELSE json_dumps(req.body.recipe)

\* C6: an authorized DELETE of a stored id removes exactly that drink and
\* answers {success: true, delete: id}; until the next create, every
\* authorized DELETE or PATCH of that id answers 404 and no list shows it.
C6_DeleteThenGone ==
    /\ req.endpoint = "delete_drink" /\ Authorized(req) /\ ~fault /\ req.id \in DOMAIN pre
       => /\ Succeeded
          /\ resp.body = DeleteBody(req.id)
          /\ DOMAIN table = DOMAIN pre \ {req.id}
          /\ \A i \in DOMAIN table : table[i] = pre[i]
    /\ /\ req.endpoint \in {"update_drink", "delete_drink"} /\ Authorized(req)
       /\ req.id \in gone /\ req.id \notin DOMAIN pre
       => resp.status = 404
    /\ gone \cap DOMAIN table = {}
    /\ req.endpoint \in {"get_drinks", "get_drinks_detail"} /\ Succeeded
       => \A i \in DOMAIN resp.body.drinks : resp.body.drinks[i].id \notin gone

\* C7: every error response is the JSON envelope {success: false, error:
\* <status>, message: <string>}, never the framework's page, and an AuthError
\* is answered with its own status and code.
C7_ErrorEnvelope ==
    resp.status \notin {0, 200} =>
        /\ resp.body.kind = "error"
        /\ ~resp.body.success
        /\ resp.body.error = resp.status
        /\ view.raised.kind = "AuthError" => resp.status = view.raised.code

\* C8: a create, update or delete that ends in an error response leaves the
\* stored drinks exactly as they were, also when update fails after it has
\* assigned a field.
C8_NoPartialSuccess ==
    req.endpoint \in {"create_drink", "update_drink", "delete_drink"} /\ ~Succeeded
        => table = pre

\* An update that assigned a new title and then failed to commit.
C8_Witness ==
    /\ req.endpoint = "update_drink" /\ Authorized(req)
    /\ req.id \in DOMAIN pre
    /\ req.body.kind = "object" /\ req.body.title # None
    /\ req.body.title # pre[req.id].title
    /\ fault
    /\ resp.status = 422

\* C9: create answers 422 to whatever is raised while it parses the body or
\* persists the drink; update and delete answer an HTTP error with its own
\* status (404 for an absent id) and anything else with 422.
C9_Normalized ==
    /\ req.endpoint = "create_drink" /\ Authorized(req) =>
        /\ view.caught # NoExc => resp.status = 422
        /\ req.body.kind # "object" \/ req.body.title = None \/ fault => resp.status = 422
    /\ req.endpoint \in {"update_drink", "delete_drink"} /\ Authorized(req) =>
        /\ view.caught.kind = "HTTPException" => resp.status = view.caught.code
        /\ view.caught.kind = "Exception" => resp.status = 422
        /\ req.id \notin DOMAIN pre /\ req.body.kind # "malformed"
              /\ view.caught # HTTPExc(415) => resp.status = 404
        /\ req.id \in DOMAIN pre /\ fault /\ req.body.kind = "object" => resp.status = 422

\* A PATCH of an absent id: the 404 raised inside the try block is answered as 404.
C9_Witness ==
    /\ req.endpoint = "update_drink" /\ Authorized(req)
    /\ req.body.kind = "object"
    /\ view.caught = HTTPExc(404)
    /\ resp.status = 404

\* C10: the two lists change nothing, a create changes no drink that was
\* stored, and a PATCH or DELETE of an id changes no drink with another id.
C10_Frame ==
    /\ req.endpoint \in {"get_drinks", "get_drinks_detail"} => table = pre
    /\ req.endpoint = "create_drink" =>
          \A i \in DOMAIN pre : i \in DOMAIN table /\ table[i] = pre[i]
    /\ req.endpoint \in {"update_drink", "delete_drink"} =>
          /\ DOMAIN table \subseteq DOMAIN pre
          /\ \A i \in DOMAIN pre \ {req.id} : i \in DOMAIN table /\ table[i] = pre[i]

\* A successful DELETE in a store that holds another drink.
C10_Witness ==
    /\ req.endpoint = "delete_drink" /\ Succeeded
    /\ Cardinality(DOMAIN pre) = 2
    /\ Cardinality(DOMAIN table) = 1

\* ------------------------------------------------------------ what does hold
\* Of C5 and C6, all but the status of a PATCH whose body get_json rejects:
\* a PATCH with a body that parses applies the fields present, and a PATCH or
\* DELETE of an absent id answers 404 unless get_json raised first.
UpdateWithParsedBody ==
    req.endpoint = "update_drink" /\ Authorized(req) /\ view.caught.code \notin {400, 415} =>
        /\ req.id \notin DOMAIN pre => resp = not_found /\ table = pre
        /\ req.id \in DOMAIN pre /\ req.body.kind = "object" /\ ~fault =>
            /\ Succeeded
            /\ resp.body.drinks = <<long(req.id, table[req.id])>>
            /\ table[req.id].title =
                  IF req.body.title = None THEN pre[req.id].title ELSE req.body.title
            /\ table[req.id].recipe =
                  IF req.body.recipe = JNull THEN pre[req.id].recipe
                  ELSE json_dumps(req.body.recipe)

DeletedStaysGone ==
    /\ req.endpoint = "delete_drink" /\ Authorized(req) /\ req.id \notin DOMAIN pre
       => resp = not_found
    /\ gone \cap DOMAIN table = {}

====
